---- MODULE Spec2Model ----
(***************************************************************************)
(* Conway's Game of Life on a periodic grid (conwaysPeriodicMultithreaded  *)
(* .py): the Grid object, its rule evaluator neighborChecks, the lazy      *)
(* sequential step iterateSingleCore and the pool-based step               *)
(* iterateMultiCore with the multiprocessing pool's map (chunks, pickled   *)
(* copies of the grid, ordered result list), the loop of Grid.run and the   *)
(* text of Grid.__str__.                                                   *)
(***************************************************************************)
EXTENDS Integers, Sequences, FiniteSets, TLC

\* ---------------------------------------------------------------- bounds
MaxRows == 3
MaxCols == 3
MaxCells == 9
MaxSeeds == 3
MaxWorkers == 2
MaxGen == 2
GliderMaxGen == 4
MaxBlockDim == 4
BlockMaxGen == 1
RunMaxWorkers == 1
RunRows == 2
RunCols == 2
RenderMaxRows == 2
RenderMaxCols == 2
RenderMaxGen == 1
ConstructMaxRows == 2
ConstructMaxCols == 2
ConstructMaxSeeds == 3
ConstructMaxGen == 1

\* ------------------------------------------------------ program constants
RESURRECTION_THRESHOLD == 3
LIFE_THRESHOLD == 2
ROWS == 5
COLS == 10
START_CELLS == {<<0, 2>>, <<1, 2>>, <<2, 2>>, <<2, 1>>, <<1, 0>>}
ITERATION_COUNT == 1000
\* text is a sequence of characters
DEAD_CHARACTER == <<" ", " ">>
ALIVE_CHARACTER == <<"[", "]">>

VARIABLES
  rows, cols, grid,   \* the Grid object's attributes
  startOn,            \* the constructor's _startOn argument, until the first step
  nworkers,           \* size of the pool p of the map call in progress (0: none)
  pc,                 \* position of the invoking thread
  idx,                \* items of grid1Ds / of the result list consumed by the for loop
  taskq,              \* the pool's task queue: chunk numbers not yet taken
  running,            \* chunks being evaluated by a worker -> that worker's unpickled copy of self
  results,            \* the map result list (None until a chunk returns), dropped on return
  numberLeft,         \* chunks whose results are still missing
  grid0,              \* grid at the start of the step in progress
  evals,              \* evaluations of each flattened coordinate in the step in progress
  writes,             \* cell writes performed in the step in progress
  gen,                \* generations completed
  rpc,                \* position of the thread in Grid.run ("none": run not called)
  processing,         \* run's processing argument
  pool,               \* size of the pool p handed to run
  iterations,         \* iterations of run's for loop begun
  timed,              \* iterations whose deltaTime was added to timeSum
  out                 \* the text the last str(self) returned (None: not called yet)

stepVars == <<rows, cols, grid, startOn, nworkers, pc, idx, taskq, running,
              results, numberLeft, grid0, evals, writes, gen>>

runVars == <<rpc, processing, pool, iterations, timed>>

vars == <<stepVars, runVars, out>>

\* ------------------------------------------------------------ the Grid
None == <<>>

Self == [rows |-> rows, cols |-> cols, grid |-> grid]
Self0 == [rows |-> rows, cols |-> cols, grid |-> grid0]

\* mutant of Construct: a seed beyond an edge is wrapped round it
ConstructWraps(_rows, _cols, _startOn) ==
  [k \in 0..(_rows - 1) |->
     [i \in 0..(_cols - 1) |->
        IF \E s \in _startOn : s[1] % _cols = i /\ s[2] % _rows = k THEN 1 ELSE 0]]

\* Grid.__init__: grid[k][i] = 1 iff (i, k) in _startOn, i over the columns, k over the rows
Construct(_rows, _cols, _startOn) ==
  [k \in 0..(_rows - 1) |->
     [i \in 0..(_cols - 1) |-> IF <<i, k>> \in _startOn THEN 1 ELSE 0]]

\* sum(f(i) for i in range(lo, lo + 3))
Sum3(f, lo) == f[lo] + f[lo + 1] + f[lo + 2]

\* mutants of neighborCount: centre not excluded / indices not wrapped
neighborCountWithCentre(s, point) ==
  LET x == point[1]
      y == point[2]
  IN Sum3([k \in (y - 1)..(y + 1) |->
             Sum3([i \in (x - 1)..(x + 1) |-> s.grid[i % s.rows][k % s.cols]], x - 1)],
          y - 1)

neighborCountNoWrap(s, point) ==
  LET x == point[1]
      y == point[2]
  IN Sum3([k \in (y - 1)..(y + 1) |->
             Sum3([i \in (x - 1)..(x + 1) |->
                     IF (i = x /\ k = y) \/ i < 0 \/ i >= s.rows \/ k < 0 \/ k >= s.cols
                     THEN 0 ELSE s.grid[i][k]], x - 1)],
          y - 1)

\* neighborChecks, the count: sum over k in range(y-1, y+2), i in range(x-1, x+2)
neighborCount(s, point) ==
  LET x == point[1]
      y == point[2]
  IN Sum3([k \in (y - 1)..(y + 1) |->
             Sum3([i \in (x - 1)..(x + 1) |->
                     IF i = x /\ k = y THEN 0 ELSE s.grid[i % s.rows][k % s.cols]], x - 1)],
          y - 1)

\* mutants of neighborChecks: birth at any count up to the threshold / survival
\* only at LIFE_THRESHOLD / a surviving cell reported as an update to alive
neighborChecksEmitsSame(s, point) ==
  LET n == neighborCount(s, point)
      cell == s.grid[point[1]][point[2]]
  IN IF n = RESURRECTION_THRESHOLD /\ cell = 0 THEN <<point, 1>>
     ELSE IF n # LIFE_THRESHOLD /\ n # RESURRECTION_THRESHOLD /\ cell # 0 THEN <<point, 0>>
     ELSE IF cell # 0 THEN <<point, 1>>
     ELSE None

neighborChecksBirthLeq(s, point) ==
  LET n == neighborCount(s, point)
      cell == s.grid[point[1]][point[2]]
  IN IF n <= RESURRECTION_THRESHOLD /\ cell = 0 THEN <<point, 1>>
     ELSE IF n # LIFE_THRESHOLD /\ n # RESURRECTION_THRESHOLD /\ cell # 0 THEN <<point, 0>>
     ELSE None

neighborChecksNoSurvive3(s, point) ==
  LET n == neighborCount(s, point)
      cell == s.grid[point[1]][point[2]]
  IN IF n = RESURRECTION_THRESHOLD /\ cell = 0 THEN <<point, 1>>
     ELSE IF n # LIFE_THRESHOLD /\ cell # 0 THEN <<point, 0>>
     ELSE None

\* neighborChecks, the rule: (point, 1), (point, 0) or None
neighborChecks(s, point) ==
  LET n == neighborCount(s, point)
      cell == s.grid[point[1]][point[2]]
  IN IF n = RESURRECTION_THRESHOLD /\ cell = 0 THEN <<point, 1>>
     ELSE IF n # LIFE_THRESHOLD /\ n # RESURRECTION_THRESHOLD /\ cell # 0 THEN <<point, 0>>
     ELSE None

\* mutant of grid1Ds: the row is taken by dividing by the number of rows
grid1DsDivRows(s) ==
  [j \in 1..(s.rows * s.cols) |-> <<(j - 1) \div s.rows, (j - 1) % s.cols>>]

\* grid1Ds = [(i // cols, i % cols) for i in range(rows * cols)], 1-indexed here
grid1Ds(s) ==
  [j \in 1..(s.rows * s.cols) |-> <<(j - 1) \div s.cols, (j - 1) % s.cols>>]

NumCells == rows * cols

\* self.grid[point[0]][point[1]] = v
SetCell(g, upd) ==
  [g EXCEPT ![upd[1][1]] = [@ EXCEPT ![upd[1][2]] = upd[2]]]

\* ------------------------------------------------------ the pool's map
\* chunksize, extra = divmod(len(iterable), len(pool) * 4); if extra: chunksize += 1
ChunkSizeFor(n, w) ==
  LET q == n \div (w * 4)
      extra == n % (w * 4)
  IN IF extra # 0 THEN q + 1 ELSE q

\* the number of chunks p.map makes of n items for a pool of w workers
NumChunksFor(n, w) == (n + ChunkSizeFor(n, w) - 1) \div ChunkSizeFor(n, w)

ChunkSize == ChunkSizeFor(NumCells, nworkers)

NumChunks == NumChunksFor(NumCells, nworkers)

\* positions of grid1Ds that make up chunk c
Chunk(c) == ((c - 1) * ChunkSize + 1)..(IF c * ChunkSize < NumCells THEN c * ChunkSize ELSE NumCells)

\* mutant of MapReady: results are consumed as soon as the first chunk is back
MapReadyEarly == numberLeft < NumChunks

\* map blocks until every chunk has returned
MapReady == numberLeft = 0

\* ------------------------------------------------------------ Init
\* seed pairs offered to the constructor: every index of either axis and one beyond it
Seeds(_rows, _cols) == (0.._cols) \X (0.._rows)

\* no chunk is in a worker's hands
NoneRunning == [c \in {} |-> 0]

InitCommon ==
  /\ pc = "idle"
  /\ idx = 0
  /\ taskq = <<>>
  /\ nworkers = 0
  /\ running = NoneRunning
  /\ results = <<>>
  /\ numberLeft = 0
  /\ grid0 = grid
  /\ evals = [j \in 1..NumCells |-> 0]
  /\ writes = 0
  /\ gen = 0
  /\ rpc = "none"
  /\ processing = ""
  /\ pool = 0
  /\ iterations = 0
  /\ timed = 0
  /\ out = None

Init ==
  /\ rows \in 1..MaxRows
  /\ cols \in 1..MaxCols
  /\ rows * cols <= MaxCells
  /\ startOn \in {s \in SUBSET Seeds(rows, cols) : Cardinality(s) <= MaxSeeds}
  /\ grid = Construct(rows, cols, startOn)
  /\ InitCommon

\* ------------------------------------------------- iterateSingleCore
\* grid1Ds built, changeList = map(...) and filter(...) created: nothing evaluated yet
StartSingleUpTo(bound) ==
  /\ pc = "idle"
  /\ gen < bound
  /\ pc' = "single"
  /\ idx' = 0
  /\ grid0' = grid
  /\ evals' = [j \in 1..NumCells |-> 0]
  /\ writes' = 0
  /\ startOn' = {}
  /\ UNCHANGED <<rows, cols, grid, nworkers, taskq, running, results,
                 numberLeft, gen>>

StartSingle == StartSingleUpTo(MaxGen)

\* the for loop pulls the next item through filter and map: neighborChecks runs
\* on the grid as it is now, and a non-None result is written at once
SingleStep ==
  /\ pc = "single"
  /\ idx < NumCells
  /\ LET res == neighborChecks(Self, grid1Ds(Self)[idx + 1])
     IN /\ grid' = IF res # None THEN SetCell(grid, res) ELSE grid
        /\ writes' = IF res # None THEN writes + 1 ELSE writes
  /\ evals' = [evals EXCEPT ![idx + 1] = @ + 1]
  /\ idx' = idx + 1
  /\ UNCHANGED <<rows, cols, startOn, nworkers, pc, taskq, running,
                 results, numberLeft, grid0, gen>>

\* the step's bookkeeping ends with the step
StepOver ==
  /\ idx' = 0
  /\ grid0' = grid
  /\ evals' = [j \in 1..NumCells |-> 0]
  /\ writes' = 0

SingleReturn ==
  /\ pc = "single"
  /\ idx = NumCells
  /\ pc' = "idle"
  /\ gen' = gen + 1
  /\ StepOver
  /\ UNCHANGED <<rows, cols, grid, startOn, nworkers, taskq, running,
                 results, numberLeft>>

\* -------------------------------------------------- iterateMultiCore
\* iterateMultiCore(p) with a pool of some size: p.map(self.neighborChecks,
\* grid1Ds) queues the chunks and the caller blocks
StartMultiUpTo(bound) ==
  /\ pc = "idle"
  /\ gen < bound
  /\ \E n \in 1..MaxWorkers :
       /\ nworkers' = n
       /\ taskq' = [c \in 1..NumChunksFor(NumCells, n) |-> c]
       /\ numberLeft' = NumChunksFor(NumCells, n)
  /\ pc' = "map"
  /\ idx' = 0
  /\ results' = [j \in 1..NumCells |-> None]
  /\ grid0' = grid
  /\ evals' = [j \in 1..NumCells |-> 0]
  /\ writes' = 0
  /\ startOn' = {}
  /\ UNCHANGED <<rows, cols, grid, running, gen>>

StartMulti == StartMultiUpTo(MaxGen)

\* an idle worker takes the next chunk with its pickled copy of self
TakeTask ==
  /\ Cardinality(DOMAIN running) < nworkers
  /\ taskq # <<>>
  /\ running' = [c \in DOMAIN running \cup {Head(taskq)} |->
                   IF c = Head(taskq) THEN Self ELSE running[c]]
  /\ taskq' = Tail(taskq)
  /\ UNCHANGED <<rows, cols, grid, startOn, nworkers, pc, idx, results,
                 numberLeft, grid0, evals, writes, gen>>

\* mutant of FinishTask: the worker shares the caller's grid and writes its
\* updates into it at once
FinishTaskInPlace(c) ==
  /\ c \in DOMAIN running
  /\ LET copy == running[c]
         points == grid1Ds(copy)
         chunk == Chunk(c)
         found == [j \in 1..NumCells |->
                     IF j \in chunk THEN neighborChecks(copy, points[j]) ELSE None]
     IN /\ results' = [j \in 1..NumCells |-> IF j \in chunk THEN found[j] ELSE results[j]]
        /\ evals' = [j \in 1..NumCells |->
                       IF j \in chunk THEN evals[j] + 1 ELSE evals[j]]
        /\ grid' = [r \in 0..(rows - 1) |-> [k \in 0..(cols - 1) |->
                      IF found[r * cols + k + 1] # None
                      THEN found[r * cols + k + 1][2] ELSE grid[r][k]]]
  /\ numberLeft' = numberLeft - 1
  /\ running' = [d \in DOMAIN running \ {c} |-> running[d]]
  /\ UNCHANGED <<rows, cols, startOn, nworkers, pc, idx, taskq, grid0,
                 writes, gen>>

\* the worker holding chunk c has run neighborChecks on every point of it, on
\* its own copy, and the results are stored at the chunk's place in the list
FinishTask(c) ==
  /\ c \in DOMAIN running
  /\ LET copy == running[c]
         points == grid1Ds(copy)
         chunk == Chunk(c)
     IN /\ results' = [j \in 1..NumCells |->
                         IF j \in chunk THEN neighborChecks(copy, points[j])
                         ELSE results[j]]
        /\ evals' = [j \in 1..NumCells |->
                       IF j \in chunk THEN evals[j] + 1 ELSE evals[j]]
  /\ numberLeft' = numberLeft - 1
  /\ running' = [d \in DOMAIN running \ {c} |-> running[d]]
  /\ UNCHANGED <<rows, cols, grid, startOn, nworkers, pc, idx, taskq, grid0,
                 writes, gen>>

\* map returns the complete list and the pool is free again; the for loop
\* over filter(...) starts
MapReturn ==
  /\ pc = "map"
  /\ MapReady
  /\ pc' = "commit"
  /\ idx' = 0
  /\ nworkers' = 0
  /\ UNCHANGED <<rows, cols, grid, startOn, taskq, running,
                 results, numberLeft, grid0, evals, writes, gen>>

\* one item of the result list: None is filtered out, an update is written
CommitStep ==
  /\ pc = "commit"
  /\ idx < NumCells
  /\ LET res == results[idx + 1]
     IN /\ grid' = IF res # None THEN SetCell(grid, res) ELSE grid
        /\ writes' = IF res # None THEN writes + 1 ELSE writes
  /\ idx' = idx + 1
  /\ UNCHANGED <<rows, cols, startOn, nworkers, pc, taskq, running,
                 results, numberLeft, grid0, evals, gen>>

MultiReturn ==
  /\ pc = "commit"
  /\ idx = NumCells
  /\ pc' = "idle"
  /\ gen' = gen + 1
  /\ results' = <<>>
  /\ StepOver
  /\ UNCHANGED <<rows, cols, grid, startOn, nworkers, taskq, running, numberLeft>>

Next ==
  \/ StartSingle /\ UNCHANGED <<runVars, out>>
  \/ SingleStep /\ UNCHANGED <<runVars, out>>
  \/ SingleReturn /\ UNCHANGED <<runVars, out>>
  \/ StartMulti /\ UNCHANGED <<runVars, out>>
  \/ TakeTask /\ UNCHANGED <<runVars, out>>
  \/ \E c \in DOMAIN running : FinishTask(c) /\ UNCHANGED <<runVars, out>>
  \/ MapReturn /\ UNCHANGED <<runVars, out>>
  \/ CommitStep /\ UNCHANGED <<runVars, out>>
  \/ MultiReturn /\ UNCHANGED <<runVars, out>>

Spec == Init /\ [][Next]_vars

\* ------------------------------------------- the default run's grid
\* g = Grid(ROWS, COLS, START_CELLS), stepped by iterateMultiCore only
GliderInit ==
  /\ rows = ROWS
  /\ cols = COLS
  /\ startOn = START_CELLS
  /\ grid = Construct(rows, cols, startOn)
  /\ InitCommon

GliderStartMulti == StartMultiUpTo(GliderMaxGen)

GliderNext ==
  \/ GliderStartMulti /\ UNCHANGED <<runVars, out>>
  \/ TakeTask /\ UNCHANGED <<runVars, out>>
  \/ \E c \in DOMAIN running : FinishTask(c) /\ UNCHANGED <<runVars, out>>
  \/ MapReturn /\ UNCHANGED <<runVars, out>>
  \/ CommitStep /\ UNCHANGED <<runVars, out>>
  \/ MultiReturn /\ UNCHANGED <<runVars, out>>

GliderSpec == GliderInit /\ [][GliderNext]_vars

\* ------------------------------------------------------- Grid.run
\* OUTPUT_TYPE is None, so run prints no grid; TIME_BETWEEN_ITERATIONS is 0.
\* timeSum is followed by the number of deltaTime values added to it.
\* the names run is called with: the two it knows and one it does not
ProcessingNames == {"Multi", "Single", "multi"}

\* g.run(p, processing) is called: timeSum = 0
RunCall ==
  /\ rpc = "none"
  /\ \E name \in ProcessingNames, w \in 1..RunMaxWorkers :
       /\ processing' = name
       /\ pool' = w
  /\ rpc' = "loop"
  /\ iterations' = 0
  /\ timed' = 0
  /\ UNCHANGED stepVars
  /\ UNCHANGED out

\* processing == 'Multi': self.iterateMultiCore(p) is called
RunMulti ==
  /\ rpc = "loop"
  /\ iterations < ITERATION_COUNT
  /\ processing = "Multi"
  /\ StartMultiUpTo(ITERATION_COUNT)
  /\ nworkers' = pool
  /\ rpc' = "step"
  /\ iterations' = iterations + 1
  /\ UNCHANGED <<processing, pool, timed>>
  /\ UNCHANGED out

\* processing == 'Single': self.iterateSingleCore() is called
RunSingle ==
  /\ rpc = "loop"
  /\ iterations < ITERATION_COUNT
  /\ processing = "Single"
  /\ StartSingleUpTo(ITERATION_COUNT)
  /\ rpc' = "step"
  /\ iterations' = iterations + 1
  /\ UNCHANGED <<processing, pool, timed>>
  /\ UNCHANGED out

\* mutant of RunInvalid: the unknown name ends the run
RunInvalidBreaks ==
  /\ rpc = "loop"
  /\ iterations < ITERATION_COUNT
  /\ processing \notin {"Multi", "Single"}
  /\ rpc' = "returned"
  /\ iterations' = iterations + 1
  /\ UNCHANGED <<processing, pool, timed>>
  /\ UNCHANGED stepVars
  /\ UNCHANGED out

\* else: print('Please input a valid processing type.'), then the sleep
RunInvalid ==
  /\ rpc = "loop"
  /\ iterations < ITERATION_COUNT
  /\ processing \notin {"Multi", "Single"}
  /\ iterations' = iterations + 1
  /\ UNCHANGED <<rpc, processing, pool, timed>>
  /\ UNCHANGED stepVars
  /\ UNCHANGED out

\* the step has returned deltaTime: timeSum += deltaTime, then the sleep
RunStepDone ==
  /\ rpc = "step"
  /\ pc = "idle"
  /\ timed' = timed + 1
  /\ rpc' = "loop"
  /\ UNCHANGED <<processing, pool, iterations>>
  /\ UNCHANGED stepVars
  /\ UNCHANGED out

\* mutant of RunReturn: the loop is left one iteration early
RunReturnEarly ==
  /\ rpc = "loop"
  /\ iterations = ITERATION_COUNT - 1
  /\ rpc' = "returned"
  /\ UNCHANGED <<processing, pool, iterations, timed>>
  /\ UNCHANGED stepVars
  /\ UNCHANGED out

\* range(ITERATION_COUNT) is exhausted: return timeSum * 1000 / ITERATION_COUNT
RunReturn ==
  /\ rpc = "loop"
  /\ iterations = ITERATION_COUNT
  /\ rpc' = "returned"
  /\ UNCHANGED <<processing, pool, iterations, timed>>
  /\ UNCHANGED stepVars
  /\ UNCHANGED out

\* g = Grid(rows, cols, START_CELLS) on a grid small enough to follow through
\* all ITERATION_COUNT iterations
RunInit ==
  /\ rows = RunRows
  /\ cols = RunCols
  /\ startOn = START_CELLS
  /\ grid = Construct(rows, cols, startOn)
  /\ InitCommon

RunNext ==
  \/ RunCall
  \/ RunMulti
  \/ RunSingle
  \/ RunInvalid
  \/ RunStepDone
  \/ RunReturn
  \/ SingleStep /\ UNCHANGED <<runVars, out>>
  \/ SingleReturn /\ UNCHANGED <<runVars, out>>
  \/ TakeTask /\ UNCHANGED <<runVars, out>>
  \/ \E c \in DOMAIN running : FinishTask(c) /\ UNCHANGED <<runVars, out>>
  \/ MapReturn /\ UNCHANGED <<runVars, out>>
  \/ CommitStep /\ UNCHANGED <<runVars, out>>
  \/ MultiReturn /\ UNCHANGED <<runVars, out>>

RunSpec == RunInit /\ [][RunNext]_vars

\* ------------------------------------------------------- Grid.__str__
\* sep.join(parts)
RECURSIVE Join(_, _)
Join(parts, sep) ==
  IF parts = <<>> THEN <<>>
  ELSE IF Len(parts) = 1 THEN parts[1]
  ELSE parts[1] \o sep \o Join(Tail(parts), sep)

\* mutant of Render: the glyphs are swapped
RenderSwapped(s) ==
  Join([i \in 1..s.rows |->
          Join([k \in 1..s.cols |->
                  IF s.grid[i - 1][k - 1] = 0 THEN ALIVE_CHARACTER ELSE DEAD_CHARACTER],
               <<>>)],
       <<"\n">>)

\* __str__: '\n'.join(''.join(DEAD_CHARACTER if grid[i][k] == 0 else
\* ALIVE_CHARACTER for k in range(cols)) for i in range(rows))
Render(s) ==
  Join([i \in 1..s.rows |->
          Join([k \in 1..s.cols |->
                  IF s.grid[i - 1][k - 1] = 0 THEN DEAD_CHARACTER ELSE ALIVE_CHARACTER],
               <<>>)],
       <<"\n">>)

\* str(self) is called between two steps
RenderCall ==
  /\ pc = "idle"
  /\ out' = Render(Self)
  /\ UNCHANGED <<stepVars, runVars>>

\* Grid(rows, cols, seeds inside the grid), rendered before and after
\* sequential steps
RenderInit ==
  /\ rows \in 1..RenderMaxRows
  /\ cols \in 1..RenderMaxCols
  /\ startOn \in SUBSET ((0..(cols - 1)) \X (0..(rows - 1)))
  /\ grid = Construct(rows, cols, startOn)
  /\ InitCommon

RenderStartSingle == StartSingleUpTo(RenderMaxGen)

RenderNext ==
  \/ RenderCall
  \/ RenderStartSingle /\ UNCHANGED <<runVars, out>>
  \/ SingleStep /\ UNCHANGED <<runVars, out>>
  \/ SingleReturn /\ UNCHANGED <<runVars, out>>

RenderSpec == RenderInit /\ [][RenderNext]_vars

\* ------------------------------------ seeds inside and outside the grid
\* seed pairs offered to the constructor: every index of either axis, the one
\* before the first and the one after the last
SeedsAround(_rows, _cols) == ((-1).._cols) \X ((-1).._rows)

\* Grid(rows, cols, seeds), some of the seeds outside the grid, then stepped
\* sequentially
ConstructInit ==
  /\ rows \in 1..ConstructMaxRows
  /\ cols \in 1..ConstructMaxCols
  /\ startOn \in {s \in SUBSET SeedsAround(rows, cols) : Cardinality(s) <= ConstructMaxSeeds}
  /\ grid = Construct(rows, cols, startOn)
  /\ InitCommon

ConstructStartSingle == StartSingleUpTo(ConstructMaxGen)

ConstructNext ==
  \/ ConstructStartSingle /\ UNCHANGED <<runVars, out>>
  \/ SingleStep /\ UNCHANGED <<runVars, out>>
  \/ SingleReturn /\ UNCHANGED <<runVars, out>>

ConstructSpec == ConstructInit /\ [][ConstructNext]_vars

\* ------------------------------------------- a 2 x 2 block on a torus
\* the seed pairs (column, row) of the block whose top-left cell is (r0, c0),
\* wrapped round the edges
BlockSeeds(r0, c0, _rows, _cols) ==
  {<<(c0 + dc) % _cols, (r0 + dr) % _rows>> : dr \in 0..1, dc \in 0..1}

\* Grid(rows, cols, block) with rows >= 4 and cols >= 4, stepped by either strategy
BlockInit ==
  /\ rows \in 4..MaxBlockDim
  /\ cols \in 4..MaxBlockDim
  /\ \E r0 \in 0..(rows - 1), c0 \in 0..(cols - 1) :
       startOn = BlockSeeds(r0, c0, rows, cols)
  /\ grid = Construct(rows, cols, startOn)
  /\ InitCommon

BlockStartSingle == StartSingleUpTo(BlockMaxGen)

BlockStartMulti == StartMultiUpTo(BlockMaxGen)

BlockNext ==
  \/ BlockStartSingle /\ UNCHANGED <<runVars, out>>
  \/ SingleStep /\ UNCHANGED <<runVars, out>>
  \/ SingleReturn /\ UNCHANGED <<runVars, out>>
  \/ BlockStartMulti /\ UNCHANGED <<runVars, out>>
  \/ TakeTask /\ UNCHANGED <<runVars, out>>
  \/ \E c \in DOMAIN running : FinishTask(c) /\ UNCHANGED <<runVars, out>>
  \/ MapReturn /\ UNCHANGED <<runVars, out>>
  \/ CommitStep /\ UNCHANGED <<runVars, out>>
  \/ MultiReturn /\ UNCHANGED <<runVars, out>>

BlockSpec == BlockInit /\ [][BlockNext]_vars

\* ------------------------------------------------------------ helpers
Cells == (0..(rows - 1)) \X (0..(cols - 1))

AllDead(g) == \A p \in Cells : g[p[1]][p[2]] = 0

RECURSIVE ApplyFrom(_, _, _)
ApplyFrom(g, res, j) ==
  IF j > Len(res) THEN g
  ELSE ApplyFrom(IF res[j] # None THEN SetCell(g, res[j]) ELSE g, res, j + 1)

\* the grid iterateMultiCore leaves on the Grid s: every point evaluated on s
\* as it is at the call, then the non-None results written in list order
iterateMultiCoreOn(s) ==
  ApplyFrom(s.grid, [j \in 1..(s.rows * s.cols) |-> neighborChecks(s, grid1Ds(s)[j])], 1)

EvaluationPending ==
  \/ taskq # <<>>
  \/ DOMAIN running # {}
  \/ numberLeft > 0

Offsets == ({-1, 0, 1} \X {-1, 0, 1}) \ {<<0, 0>>}

AliveAround(g, p) ==
  Cardinality({d \in Offsets : g[(p[1] + d[1]) % rows][(p[2] + d[2]) % cols] = 1})

Flipped(p) ==
  [Self EXCEPT !.grid = [@ EXCEPT ![p[1]] = [@ EXCEPT ![p[2]] = 1 - @]]]

Shifted(g) ==
  [r \in 0..(rows - 1) |-> [c \in 0..(cols - 1) |-> g[(r - 1) % rows][(c - 1) % cols]]]

\* The caller is not blocked in map. While it is blocked the grid is the one
\* of the state in which the call was made, so the states below cover every
\* value the grid takes.
NotInMap == pc # "map"

\* ------------------------------------------------------------ claims

\* C1: one generation by iterateSingleCore and one by iterateMultiCore, each on
\* its own identical copy of the starting grid, leave identical cell matrices.
SingleEqualsMulti ==
  (pc = "single" /\ idx = NumCells) => grid = iterateMultiCoreOn(Self0)

\* C2: in a sequential step every evaluation of the generation happens before
\* the first cell write of that generation: while an evaluation is still to
\* come, nothing has been written.
SingleEvaluatesBeforeWriting ==
  (pc = "single" /\ idx < NumCells) => (writes = 0 /\ grid = grid0)

\* C3: in a parallel step the grid is not written (by a worker or by the
\* caller) as long as the caller is inside map or any evaluation of the
\* generation is queued or running, and every worker evaluates a copy equal to
\* the grid as it was at the start of the generation.
MultiWritesAfterAllEvaluations ==
  /\ (pc = "map" \/ EvaluationPending) => (writes = 0 /\ grid = grid0)
  /\ \A c \in DOMAIN running : running[c] = Self0

MultiWroteAfterBarrier ==
  /\ pc = "commit" /\ writes > 0 /\ ~EvaluationPending
  /\ \A j \in 1..NumCells : evals[j] = 1

\* C4: neighborChecks returns (point, 1) exactly for a dead cell with
\* RESURRECTION_THRESHOLD neighbours, (point, 0) exactly for an alive cell whose
\* count is neither threshold, and None in every other case; the same holds of
\* the results a parallel step has gathered.
RuleCases(s, p, res) ==
  LET n == neighborCount(s, p)
      alive == s.grid[p[1]][p[2]] = 1
  IN /\ res = <<p, 1>> <=> (~alive /\ n = RESURRECTION_THRESHOLD)
     /\ res = <<p, 0>> <=> (alive /\ n # LIFE_THRESHOLD /\ n # RESURRECTION_THRESHOLD)
     /\ res = None <=> ~ \/ (~alive /\ n = RESURRECTION_THRESHOLD)
                         \/ (alive /\ n # LIFE_THRESHOLD /\ n # RESURRECTION_THRESHOLD)

EvaluateCellRule ==
  /\ NotInMap => \A p \in Cells : RuleCases(Self, p, neighborChecks(Self, p))
  /\ pc = "commit" =>
       LET points == grid1Ds(Self0)
       IN \A j \in 1..NumCells : RuleCases(Self0, points[j], results[j])

EvaluateCellRuleSeen ==
  /\ pc = "commit"
  /\ \E j \in 1..NumCells : results[j] = <<grid1Ds(Self0)[j], 1>>
  /\ \E j \in 1..NumCells :
       results[j] = None /\ grid0[grid1Ds(Self0)[j][1]][grid1Ds(Self0)[j][2]] = 1

\* C5: with rows >= 3 and cols >= 3 the neighbour count of (r, c) is the number
\* of alive cells among the 8 cells ((r+dr) mod rows, (c+dc) mod cols); row 0
\* counts row rows-1 and back, column 0 counts column cols-1 and back.
PeriodicNeighborCount ==
  (rows >= 3 /\ cols >= 3 /\ NotInMap) =>
    \A p \in Cells :
      /\ neighborCount(Self, p) = AliveAround(grid, p)
      /\ (p[1] = 0 /\ grid[rows - 1][p[2]] = 1) => neighborCount(Self, p) >= 1
      /\ (p[1] = rows - 1 /\ grid[0][p[2]] = 1) => neighborCount(Self, p) >= 1
      /\ (p[2] = 0 /\ grid[p[1]][cols - 1] = 1) => neighborCount(Self, p) >= 1
      /\ (p[2] = cols - 1 /\ grid[p[1]][0] = 1) => neighborCount(Self, p) >= 1

WrapCounted ==
  /\ rows >= 3 /\ cols >= 3
  /\ grid[rows - 1][cols - 1] = 1
  /\ neighborCount(Self, <<0, 0>>) = 1
  /\ pc = "single" /\ idx = 1 /\ evals[1] = 1

\* C6 as stated: on every grid with rows >= 1 and cols >= 1, changing only a
\* cell's own value leaves the neighbour count computed for it unchanged.
OwnStateExcludedAnySize ==
  \A p \in Cells : neighborCount(Flipped(p), p) = neighborCount(Self, p)

\* C6 amended: on every grid with rows >= 2 and cols >= 2, changing only a
\* cell's own value leaves the neighbour count computed for it unchanged.
OwnStateExcluded ==
  (rows >= 2 /\ cols >= 2 /\ NotInMap) =>
    \A p \in Cells : neighborCount(Flipped(p), p) = neighborCount(Self, p)

OwnStateExcludedSmallGrid ==
  /\ rows = 2 /\ cols = 2
  /\ grid[0][0] = 1
  /\ pc = "single" /\ idx = 1 /\ evals[1] = 1

\* C7: after construction from seeds that are (row, column) pairs inside the
\* grid, the cell at row r, column c is alive iff (r, c) is among the seeds.
ConstructRowColumn ==
  (pc = "idle" /\ gen = 0 /\ \A s \in startOn : s[1] < rows /\ s[2] < cols) =>
    \A p \in Cells : grid[p[1]][p[2]] = 1 <=> p \in startOn

\* C8: from the glider seed on the default 5 x 10 grid, after 4 generations of
\* iterateMultiCore the matrix is the generation-0 matrix shifted by one row
\* and one column, modulo the dimensions.
GliderShiftsAfterFour ==
  (gen = 4 /\ pc = "idle") => grid = Shifted(Construct(ROWS, COLS, START_CELLS))

GliderFourDone ==
  /\ gen = 4 /\ pc = "idle"
  /\ rows = ROWS /\ cols = COLS
  /\ grid # Construct(ROWS, COLS, START_CELLS)

\* C9: every (row, col) of the grid appears exactly once in grid1Ds, and a
\* parallel step evaluates every coordinate exactly once, whatever the pool
\* size and whichever worker takes which chunk.
EachCoordinateOnce ==
  /\ LET points == grid1Ds(Self)
     IN NotInMap => \A p \in Cells : Cardinality({j \in 1..NumCells : points[j] = p}) = 1
  /\ pc = "map" => \A j \in 1..NumCells : evals[j] <= 1
  /\ (pc = "commit" \/ (pc = "map" /\ MapReady)) =>
       \A j \in 1..NumCells : evals[j] = 1

AllEvaluatedByTwoWorkers ==
  /\ pc = "map" /\ MapReady /\ nworkers = 2
  /\ NumCells = 9 /\ NumChunks > 2
  /\ \A j \in 1..NumCells : evals[j] = 1

\* C10: with the default thresholds a grid with no alive cells stays without
\* alive cells through every generation, whichever strategy steps it.
EmptyStaysEmpty ==
  AllDead(grid0) => (AllDead(grid) /\ writes = 0)

EmptySteppedTwice ==
  /\ AllDead(grid0) /\ gen >= 1 /\ NumCells >= 9
  /\ pc \in {"single", "commit"} /\ idx = NumCells

\* the alive cells of g are exactly the four cells of one 2 x 2 block, wrapped
\* round the edges, on a grid of at least 4 x 4
IsBlock(g) ==
  /\ rows >= 4 /\ cols >= 4
  /\ \E p \in Cells :
       \A q \in Cells :
         g[q[1]][q[2]] = 1 <=>
           q \in {<<(p[1] + dr) % rows, (p[2] + dc) % cols>> : dr \in 0..1, dc \in 0..1}

\* C11: with the default thresholds a 2 x 2 alive block at any position, also
\* across a wrap boundary, on an otherwise empty grid of at least 4 x 4 is
\* unchanged by a generation of either strategy: no evaluation yields an update
\* record and no cell is written.
BlockStaysStill ==
  IsBlock(grid0) =>
    /\ grid = grid0
    /\ writes = 0
    /\ \A j \in DOMAIN results : results[j] = None

BlockAcrossWrapStepped ==
  /\ IsBlock(grid0)
  /\ grid0[rows - 1][cols - 1] = 1 /\ grid0[0][0] = 1
  /\ pc = "commit" /\ idx = NumCells

\* run was called with a name that is neither 'Multi' nor 'Single'
InvalidRun == rpc # "none" /\ processing \notin {"Multi", "Single"}

\* C12: run with an unrecognised processing name raises nothing and skips
\* every iteration: no step is invoked, the grid stays the constructed one,
\* nothing is added to timeSum, and run goes on until all ITERATION_COUNT
\* iterations are through and then returns.
RunInvalidIsSkipped ==
  InvalidRun =>
    /\ pc = "idle" /\ gen = 0 /\ writes = 0
    /\ grid = Construct(rows, cols, startOn)
    /\ timed = 0
    /\ rpc = "returned" => iterations = ITERATION_COUNT
    /\ rpc = "returned" \/ ENABLED RunNext

RunInvalidReturned ==
  /\ InvalidRun
  /\ rpc = "returned" /\ iterations = ITERATION_COUNT
  /\ grid = Construct(RunRows, RunCols, START_CELLS)
  /\ \E p \in Cells : grid[p[1]][p[2]] = 1

\* the update records of a result list, applied last to first
RECURSIVE ApplyBackFrom(_, _, _)
ApplyBackFrom(g, res, j) ==
  IF j < 1 THEN g
  ELSE ApplyBackFrom(IF res[j] # None THEN SetCell(g, res[j]) ELSE g, res, j - 1)

\* every record of res flips the state its cell has in g, and no two records
\* address one cell
RecordsFlipDistinctCells(g, res) ==
  /\ \A j \in DOMAIN res :
       res[j] # None => res[j][2] = 1 - g[res[j][1][1]][res[j][1][2]]
  /\ \A j, k \in DOMAIN res :
       (res[j] # None /\ res[k] # None /\ j # k) => res[j][1] # res[k][1]

\* C13: every update record of a generation carries the opposite of the state
\* its cell had when it was evaluated and no two records of a generation
\* address one cell, in the gathered list of a parallel step and in the writes
\* of a sequential step (each write flips the cell just evaluated, and a cell
\* is evaluated once); so the records applied first to last, last to first or
\* cell by cell leave the same grid.
UpdatesFlipDistinctCells ==
  /\ [](pc = "commit" =>
         /\ RecordsFlipDistinctCells(grid0, results)
         /\ ApplyBackFrom(grid0, results, Len(results)) = ApplyFrom(grid0, results, 1)
         /\ \A j \in DOMAIN results :
              results[j] # None =>
                ApplyFrom(grid0, results, 1)[results[j][1][1]][results[j][1][2]] = results[j][2]
         /\ idx = NumCells => grid = ApplyFrom(grid0, results, 1))
  /\ [][(pc = "single" /\ pc' = "single") =>
         LET point == grid1Ds(Self)[idx + 1]
         IN /\ idx' = idx + 1
            /\ evals[idx + 1] = 0
            /\ IF writes' = writes + 1
               THEN grid' = SetCell(grid, <<point, 1 - grid[point[1]][point[2]]>>)
               ELSE writes' = writes /\ grid' = grid]_vars

TwoUpdatesCommitted ==
  /\ pc = "commit" /\ idx = NumCells
  /\ writes >= 2
  /\ \E j \in DOMAIN results : results[j] # None /\ results[j][2] = 0

\* C14: the outcome of a parallel step is a function of the grid it starts
\* from alone: whatever the pool size (and with it the chunks) and in whatever
\* order the workers take and return their chunks, every position of the
\* result list that has come back holds the evaluation of its coordinate on
\* the starting grid, the complete list is the same, and so is the grid after
\* the commit.
ParallelStepDeterministic ==
  LET points == grid1Ds(Self0)
  IN /\ pc = "map" =>
          \A j \in 1..NumCells :
            results[j] = IF evals[j] = 0 THEN None ELSE neighborChecks(Self0, points[j])
     /\ pc = "commit" =>
          \A j \in 1..NumCells : results[j] = neighborChecks(Self0, points[j])
     /\ (pc = "commit" /\ idx = NumCells) => grid = iterateMultiCoreOn(Self0)

\* a later chunk has come back before an earlier one
ReturnedOutOfOrder ==
  /\ pc = "map" /\ nworkers = 2
  /\ \E j, k \in 1..NumCells :
       j < k /\ evals[j] = 0 /\ evals[k] = 1 /\ results[k] # None

\* run was called with 'Multi' or 'Single'
ValidRun == rpc # "none" /\ processing \in {"Multi", "Single"}

\* what is left to do of the step in progress: its writes, and before them the
\* chunks still to be taken and to come back
StepRemaining ==
  CASE pc = "idle" -> 0
    [] pc = "single" -> 1 + (NumCells - idx)
    [] pc = "commit" -> 1 + (NumCells - idx)
    [] pc = "map" -> (NumCells + 2) + 2 * Len(taskq) + Cardinality(DOMAIN running)

\* more than a whole iteration of run can take
IterationCost == 3 * NumCells + 6

\* what is left to do of the run: a natural number every step of the run and
\* of its workers makes smaller
RunRemaining ==
  IF rpc = "none" THEN (ITERATION_COUNT + 1) * IterationCost
  ELSE (ITERATION_COUNT - iterations) * IterationCost + StepRemaining
       + (CASE rpc = "step" -> 2 [] rpc = "loop" -> 1 [] rpc = "returned" -> 0)

\* C15: run with 'Multi' or 'Single' invokes the chosen step ITERATION_COUNT
\* times, one after another: a step begins only when the one before has
\* returned with all its writes done, on the grid that one left; run returns
\* after exactly ITERATION_COUNT completed steps, and it does return: until it
\* has, something can always be done next, and whatever is done brings the
\* return nearer.
RunStepsInSequence ==
  /\ [](ValidRun =>
         /\ processing = "Multi" => pc \in {"idle", "map", "commit"}
         /\ processing = "Single" => pc \in {"idle", "single"}
         /\ iterations <= ITERATION_COUNT
         /\ rpc = "step" => iterations = (IF pc = "idle" THEN gen ELSE gen + 1)
         /\ rpc = "step" => timed = iterations - 1
         /\ rpc \in {"loop", "returned"} =>
              /\ pc = "idle" /\ ~EvaluationPending /\ results = <<>>
              /\ gen = iterations /\ timed = iterations
         /\ pc = "idle" => grid = grid0
         /\ rpc = "returned" => gen = ITERATION_COUNT)
  /\ [][(ValidRun /\ pc = "idle" /\ pc' # "idle") =>
         (rpc = "loop" /\ grid' = grid /\ grid0' = grid /\ gen' = gen)]_vars
  /\ [][(ValidRun /\ pc = "idle" /\ pc' = "idle") => grid' = grid]_vars
  /\ [](rpc = "returned" \/ ENABLED RunNext)
  /\ [](RunRemaining >= 0)
  /\ [][RunRemaining' < RunRemaining]_vars

RunValidReturned ==
  /\ ValidRun
  /\ rpc = "returned" /\ pc = "idle"
  /\ gen = ITERATION_COUNT /\ timed = ITERATION_COUNT

\* the matrix has rows rows of cols cells, each 0 or 1, and every coordinate
\* a step visits and every record it is about to commit lies inside it
GridShape ==
  /\ DOMAIN grid = 0..(rows - 1)
  /\ \A r \in 0..(rows - 1) :
       /\ DOMAIN grid[r] = 0..(cols - 1)
       /\ \A c \in 0..(cols - 1) : grid[r][c] \in {0, 1}
  /\ NotInMap => \A j \in 1..NumCells : grid1Ds(Self)[j] \in Cells
  /\ pc = "commit" =>
       \A j \in 1..NumCells :
         results[j] # None => (results[j][1] \in Cells /\ results[j][2] \in {0, 1})

\* C16: after construction and through every step the dimensions stay what
\* they were, the matrix has exactly rows rows of exactly cols cells, every
\* cell is 0 or 1, and every write (the coordinate a sequential step is about
\* to evaluate and may write, every record a parallel step is about to commit)
\* addresses a row in 0..rows-1 and a column in 0..cols-1.
GridShapeKept ==
  /\ []GridShape
  /\ [][rows' = rows /\ cols' = cols]_vars

LastCellWritten ==
  /\ rows >= 2 /\ cols >= 2 /\ gen >= 1
  /\ pc \in {"single", "commit"} /\ idx = NumCells
  /\ grid[rows - 1][cols - 1] # grid0[rows - 1][cols - 1]

\* the lines of a text: the pieces between its newlines
RECURSIVE SplitLines(_, _)
SplitLines(text, line) ==
  IF text = <<>> THEN <<line>>
  ELSE IF Head(text) = "\n" THEN <<line>> \o SplitLines(Tail(text), <<>>)
  ELSE SplitLines(Tail(text), Append(line, Head(text)))

\* the k-th glyph (from 0) of a line of two-character glyphs
GlyphAt(line, k) == SubSeq(line, 2 * k + 1, 2 * k + 2)

\* text has s.rows lines of s.cols glyphs, and the glyph at line i, position k
\* is the alive glyph iff cell (i, k) of s is alive
Shows(text, s) ==
  LET lines == SplitLines(text, <<>>)
  IN /\ Len(lines) = s.rows
     /\ \A i \in 0..(s.rows - 1) :
          /\ Len(lines[i + 1]) = 2 * s.cols
          /\ \A k \in 0..(s.cols - 1) :
               /\ GlyphAt(lines[i + 1], k) \in {ALIVE_CHARACTER, DEAD_CHARACTER}
               /\ GlyphAt(lines[i + 1], k) = ALIVE_CHARACTER <=> s.grid[i][k] = 1

\* C17: str(self) changes nothing of the grid; its text has rows lines of cols
\* glyphs with the alive glyph exactly at the alive cells; and a call made
\* while the last text is still that of the present grid returns the same
\* text again.
RenderShowsGrid ==
  /\ [][RenderCall =>
         /\ grid' = grid /\ rows' = rows /\ cols' = cols
         /\ Shows(out', Self)
         /\ out = Render(Self) => out' = out]_vars
  /\ [](pc = "idle" => Shows(Render(Self), Self))

RenderedAfterStep ==
  /\ gen >= 1 /\ pc = "idle"
  /\ rows = 2 /\ cols = 2
  /\ grid[0][0] = 1 /\ grid[0][1] = 1 /\ grid[1][0] = 0 /\ grid[1][1] = 0
  /\ out = <<"[", "]", "[", "]", "\n", " ", " ", " ", " ">>

\* the seed pairs (a, b) with 0 <= a < cols and 0 <= b < rows
SeedsInside == {s \in startOn : 0 <= s[1] /\ s[1] < cols /\ 0 <= s[2] /\ s[2] < rows}

\* C18: the constructor takes any seed list and builds the whole matrix; the
\* cell at row b, column a is alive exactly if (a, b) is a seed, which only a
\* pair with 0 <= a < cols and 0 <= b < rows can bring about: a pair outside
\* sets no cell, neither wrapped nor clamped, and the alive cells number as
\* many as the distinct seed pairs inside.
ConstructIgnoresOutside ==
  (pc = "idle" /\ gen = 0) =>
    /\ DOMAIN grid = 0..(rows - 1)
    /\ \A r \in 0..(rows - 1) : DOMAIN grid[r] = 0..(cols - 1)
    /\ \A p \in Cells : grid[p[1]][p[2]] = (IF <<p[2], p[1]>> \in SeedsInside THEN 1 ELSE 0)
    /\ Cardinality({p \in Cells : grid[p[1]][p[2]] = 1}) = Cardinality(SeedsInside)

SeedsOutsideIgnored ==
  /\ pc = "idle" /\ gen = 0
  /\ rows = 2 /\ cols = 2
  /\ startOn = {<<-1, 0>>, <<2, 1>>, <<1, 0>>}
  /\ Cardinality({p \in Cells : grid[p[1]][p[2]] = 1}) = 1
  /\ grid[0][1] = 1
====
